---- MODULE Spec2Model ----
(***************************************************************************)
(* A model of the raycaster of src/src/lib.rs: the process-wide player     *)
(* STATE, State::update (movement with wall collision), the two grid       *)
(* sweeps, get_view, point_in_wall and the per-frame entry point update().  *)
(*                                                                         *)
(* Numbers.  The program computes in f32.  The model keeps every f32 as an *)
(* integer in fixed point: a length or a ratio v stands for v / Scale, an  *)
(* angle a for a / (Scale * AngUnit) radians.  The two infinities and NaN, *)
(* which the sweeps produce when they divide by tanf(0.0), are the values  *)
(* PInf, NInf and NaN; the f32 operators below follow IEEE 754 on them.    *)
(* f32 rounding of a sum is not modelled: a sum of two model values is     *)
(* exact.                                                                  *)
(*                                                                         *)
(* Build.  `0b1 << x as usize` on a u16 is an arithmetic overflow when the *)
(* amount is 16 or more: a build with overflow checks (cargo's dev         *)
(* profile) panics, and the panic handler traps; a build without them      *)
(* (the release profile) masks the amount to its low four bits.  Which one *)
(* runs is fixed at build time: overflow_checks.                           *)
(***************************************************************************)
EXTENDS Integers, Sequences, FiniteSets, TLC

VARIABLES
    player_x, player_y, player_angle,  \* STATE
    overflow_checks,                   \* the build: TRUE panics on overflow
    gamepad,                           \* the byte at GAMEPAD1
    pc,                                \* where the entry point update() is
    frames,                            \* calls of the entry point so far
    idx,                               \* the column get_view / the draw loop is at
    before,                            \* the pose before the last STATE.update
    origin,                            \* the pose an up / down pair started from
    h_ray, v_ray,                      \* the two sweeps of get_view's last iteration
    walls,                             \* get_view's array, filled so far
    draw_colors,                       \* the u16 at DRAW_COLORS
    vline_call,                        \* the last vline(x, y, len), <<>> before any
    shifted,                           \* some shift by 16 or more happened
    arg_x, arg_y, result               \* a direct call of point_in_wall

vars == << player_x, player_y, player_angle, overflow_checks, gamepad, pc,
           frames, idx, before, origin, h_ray, v_ray, walls, draw_colors,
           vline_call, shifted, arg_x, arg_y, result >>

---------------------------------------------------------------------------
(* f32 in fixed point *)

Scale == 1000
AngUnit == 1000
PInf == 2000000000
NInf == -2000000000
NaN == 2100000000
UsizeMax == 2147483647  \* usize::MAX = 2^32 - 1 of wasm32, kept as 2^31 - 1: both are >= 16 and 15 mod 16
I32Max == 2147483647

IsFinite(a) == a # PInf /\ a # NInf /\ a # NaN
IsInf(a) == a = PInf \/ a = NInf
Abs(a) == IF a < 0 THEN -a ELSE a
Sign(a) == IF a < 0 THEN -1 ELSE IF a > 0 THEN 1 ELSE 0
Max(a, b) == IF a >= b THEN a ELSE b

\* a / b rounded to the nearest integer, b # 0
RDiv(a, b) == Sign(a) * Sign(b) * ((2 * Abs(a) + Abs(b)) \div (2 * Abs(b)))

FNeg(a) == IF a = NaN THEN NaN ELSE -a

FAdd(a, b) ==
    IF a = NaN \/ b = NaN THEN NaN
    ELSE IF IsInf(a) /\ IsInf(b) THEN (IF a = b THEN a ELSE NaN)
    ELSE IF IsInf(a) THEN a
    ELSE IF IsInf(b) THEN b
    ELSE a + b

FSub(a, b) == FAdd(a, FNeg(b))

\* the product of two finite values, the larger one split so that no
\* intermediate leaves 32 bits
MulFinite(a, b) ==
    LET big == IF Abs(a) >= Abs(b) THEN Abs(a) ELSE Abs(b)
        small == IF Abs(a) >= Abs(b) THEN Abs(b) ELSE Abs(a)
    IN  Sign(a) * Sign(b)
          * ((big \div Scale) * small + RDiv((big % Scale) * small, Scale))

FMul(a, b) ==
    IF a = NaN \/ b = NaN THEN NaN
    ELSE IF IsInf(a) \/ IsInf(b)
         THEN (IF a = 0 \/ b = 0 THEN NaN
               ELSE IF Sign(a) * Sign(b) > 0 THEN PInf ELSE NInf)
    ELSE MulFinite(a, b)

FDiv(a, b) ==
    IF a = NaN \/ b = NaN THEN NaN
    ELSE IF IsInf(a) THEN (IF IsInf(b) THEN NaN
                           ELSE IF Sign(a) * Sign(b) >= 0 THEN PInf ELSE NInf)
    ELSE IF IsInf(b) THEN 0
    ELSE IF b = 0 THEN (IF a > 0 THEN PInf ELSE IF a < 0 THEN NInf ELSE NaN)
    ELSE RDiv(a * Scale, b)

\* a < b of f32: false when either is NaN
FLt(a, b) == a # NaN /\ b # NaN /\ a < b

floorf(a) == IF IsFinite(a) THEN (a \div Scale) * Scale ELSE a
ceilf(a) == IF IsFinite(a) THEN -((-a) \div Scale) * Scale ELSE a

\* `v as usize`: toward zero, saturating, NaN to 0
AsUsize(v) ==
    IF v = NaN \/ v = NInf THEN 0
    ELSE IF v = PInf THEN UsizeMax
    ELSE IF v <= 0 THEN 0
    ELSE v \div Scale

\* `v as i32`: toward zero, saturating, NaN to 0
AsI32(v) ==
    IF v = NaN THEN 0
    ELSE IF v = PInf THEN I32Max
    ELSE IF v = NInf THEN -I32Max - 1
    ELSE Sign(v) * (Abs(v) \div Scale)

RECURSIVE SqrtSearch(_, _, _)
SqrtSearch(n, lo, hi) ==
    IF lo >= hi THEN lo
    ELSE LET mid == (lo + hi + 1) \div 2
         IN  IF mid * mid <= n THEN SqrtSearch(n, mid, hi)
             ELSE SqrtSearch(n, lo, mid - 1)

\* the integer square root of n, 0 <= n < 2^31
ISqrt(n) == SqrtSearch(n, 0, 46340)

\* sqrtf((a * a) + (b * b)); operands too large to square in 32 bits are
\* scaled down first
distance(a, b) ==
    IF a = NaN \/ b = NaN THEN NaN
    ELSE IF IsInf(a) \/ IsInf(b) THEN PInf
    ELSE LET k == (Max(Abs(a), Abs(b)) \div 30000) + 1
             p == Abs(a) \div k
             q == Abs(b) \div k
         IN  k * ISqrt(p * p + q * q)

---------------------------------------------------------------------------
(* libm's sinf, cosf and tanf: range reduction, then the Taylor series in  *)
(* units of 1 / TrigScale                                                  *)

PI == 3141593
FRAC_PI_2 == 1570796
TrigScale == 10000

\* sin t for 0 <= t <= pi/2, t and the result in units of 1 / TrigScale:
\* t (1 - t^2/6 (1 - t^2/20 (1 - t^2/42 (1 - t^2/72))))
SinTaylor(t) ==
    LET z == (t * t) \div TrigScale
        a4 == TrigScale - (z \div 72)
        a3 == TrigScale - (((z * a4) \div TrigScale) \div 42)
        a2 == TrigScale - (((z * a3) \div TrigScale) \div 20)
        a1 == TrigScale - (((z * a2) \div TrigScale) \div 6)
    IN  RDiv(t * a1, TrigScale)

\* sin of the angle r, 0 <= r < 2 pi, in units of 1 / TrigScale
SinReduced(r) ==
    LET u == (Scale * AngUnit) \div TrigScale
    IN  IF r <= FRAC_PI_2 THEN SinTaylor(RDiv(r, u))
        ELSE IF r <= PI THEN SinTaylor(RDiv(PI - r, u))
        ELSE IF r <= PI + FRAC_PI_2 THEN -SinTaylor(RDiv(r - PI, u))
        ELSE -SinTaylor(RDiv(2 * PI - r, u))

Sin4(x) == SinReduced(x % (2 * PI))
Cos4(x) == SinReduced((x + FRAC_PI_2) % (2 * PI))

sinf(x) == RDiv(Sin4(x), TrigScale \div Scale)
cosf(x) == RDiv(Cos4(x), TrigScale \div Scale)

\* tanf is 0.0 only at 0.0, and finite everywhere (no f32 is pi/2)
tanf(x) ==
    LET r == Abs(x) % PI
        t == IF r <= FRAC_PI_2 THEN r ELSE PI - r
        s == Sin4(t)
        c == Cos4(t)
        mag == IF c <= 0 THEN Scale * TrigScale
               ELSE Max(1, RDiv(s * Scale, c))
    IN  IF x = 0 THEN 0
        ELSE Sign(x) * (IF r <= FRAC_PI_2 THEN mag ELSE -mag)

---------------------------------------------------------------------------
(* the program's constants *)

BUTTON_LEFT == 16
BUTTON_RIGHT == 32
BUTTON_UP == 64
BUTTON_DOWN == 128

MAP == << \b1111111111111111,
          \b1000001010000101,
          \b1011100000110101,
          \b1000111010010001,
          \b1010001011110111,
          \b1011101001100001,
          \b1000100000001101,
          \b1111111111111111 >>

\* PI / 2.7, on the grid of 320 angle units: FOV * 0.5 and FOV / 160.0 are
\* then exact, as HALF_FOV - 80.0 * ANGLE_STEP = 0.0 is in f32
FOV == RDiv(PI * 10, 27 * 320) * 320
HALF_FOV == RDiv(FOV * 5, 10)
ANGLE_STEP == RDiv(FOV, 160)
WALL_HEIGHT == 100 * Scale
STEP_SIZE == 45
Columns == 160
SweepSteps == 256
U16Bits == 16

\* byte & mask != 0
Pressed(byte, mask) == (byte \div mask) % 2 = 1

---------------------------------------------------------------------------
(* point_in_wall *)

\* line & (0b1 << c) != 0
Bit(line, c) == (line \div (2 ^ c)) % 2 = 1

\* the shift `0b1 << x as usize` of a u16 is by 16 or more
ShiftOverflow(x, y) == AsUsize(y) < Len(MAP) /\ AsUsize(x) >= U16Bits

\* the call panics: the overflow check fails
Panics(x, y) == overflow_checks /\ ShiftOverflow(x, y)

\* the value of a call that does not panic; an overflowing shift has its
\* amount masked to the low four bits
point_in_wall(x, y) ==
    LET row == AsUsize(y)
        column == AsUsize(x)
    IN  IF row >= Len(MAP) THEN TRUE
        ELSE Bit(MAP[row + 1], column % U16Bits)

---------------------------------------------------------------------------
(* State::update *)

\* Translated with `down` subtracting sinf instead of -sinf
TranslatedAsymmetric(s, cx, cy, up, down) ==
    LET x1 == IF up THEN FAdd(s[1], cx) ELSE s[1]
        y1 == IF up THEN FAdd(s[2], cy) ELSE s[2]
    IN  << IF down THEN FSub(x1, cx) ELSE x1, IF down THEN FAdd(y1, cy) ELSE y1 >>

\* the position after the translation of update(up, down, ..) by the step
\* (cx, cy): the point update tests
Translated(s, cx, cy, up, down) ==
    LET x1 == IF up THEN FAdd(s[1], cx) ELSE s[1]
        y1 == IF up THEN FAdd(s[2], cy) ELSE s[2]
    IN  << IF down THEN FSub(x1, cx) ELSE x1, IF down THEN FSub(y1, cy) ELSE y1 >>

Moved(s, up, down) ==
    Translated(s, FMul(cosf(s[3]), STEP_SIZE), FMul(-sinf(s[3]), STEP_SIZE), up, down)

\* Rotated with the second `if` taken as the `else` of the first
RotatedElse(a, left, right) ==
    IF right THEN a - STEP_SIZE * AngUnit ELSE a + STEP_SIZE * AngUnit

\* the angle after the rotation of update(.., left, right)
Rotated(a, left, right) ==
    LET a1 == IF right THEN a - STEP_SIZE * AngUnit ELSE a
    IN  IF left THEN a1 + STEP_SIZE * AngUnit ELSE a1

\* Collided without the rollback
CollidedNoUndo(previous_position, p, a) == << p[1], p[2], a >>

\* the pose after the wall test on the translated position p
Collided(previous_position, p, a) ==
    IF point_in_wall(p[1], p[2])
    THEN << previous_position[1], previous_position[2], a >>
    ELSE << p[1], p[2], a >>

\* StateUpdate with the whole pose, angle included, restored on a collision
StateUpdateUndoAll(s, up, down, left, right) ==
    IF point_in_wall(Moved(s, up, down)[1], Moved(s, up, down)[2])
    THEN s
    ELSE << Moved(s, up, down)[1], Moved(s, up, down)[2], Rotated(s[3], left, right) >>

\* the pose <<x, y, angle>> after update(up, down, left, right) on pose s
StateUpdate(s, up, down, left, right) ==
    Collided(<< s[1], s[2] >>, Moved(s, up, down), Rotated(s[3], left, right))

---------------------------------------------------------------------------
(* the two sweeps *)

\* the loop `for _ in 0..256` of a sweep, from iteration i on: the point
\* tested is (next_x + px + off_x, next_y + py + off_y).  calls counts the
\* point_in_wall calls made, shift says that one of them shifted by 16 or
\* more, panic that the last one panicked, hit that the last one returned
\* true (the break)
RECURSIVE SweepLoop(_, _, _, _, _, _, _, _, _)
SweepLoop(i, next_x, next_y, px, py, off_x, off_y, dx, dy) ==
    IF i = SweepSteps
    THEN [next_x |-> next_x, next_y |-> next_y, calls |-> i,
          shift |-> FALSE, panic |-> FALSE, hit |-> FALSE]
    ELSE LET current_x == FAdd(FAdd(next_x, px), off_x)
             current_y == FAdd(FAdd(next_y, py), off_y)
         IN  IF Panics(current_x, current_y)
             THEN [next_x |-> next_x, next_y |-> next_y, calls |-> i + 1,
                   shift |-> TRUE, panic |-> TRUE, hit |-> FALSE]
             ELSE IF point_in_wall(current_x, current_y)
             THEN [next_x |-> next_x, next_y |-> next_y, calls |-> i + 1,
                   shift |-> ShiftOverflow(current_x, current_y),
                   panic |-> FALSE, hit |-> TRUE]
             ELSE LET r == SweepLoop(i + 1, FAdd(next_x, dx), FAdd(next_y, dy),
                                     px, py, off_x, off_y, dx, dy)
                  IN  [r EXCEPT !.shift = @ \/ ShiftOverflow(current_x, current_y)]

\* the sweep's result: its return value dist, with the loop's record
Returned(r) ==
    [dist |-> distance(r.next_x, r.next_y), next_x |-> r.next_x,
     next_y |-> r.next_y, calls |-> r.calls,
     shift |-> r.shift, panic |-> r.panic, hit |-> r.hit]

horizontal_intersection(px, py, angle) ==
    LET up == ((angle \div PI) % 2) # 0
        first_y == IF up THEN FSub(ceilf(py), py) ELSE FSub(floorf(py), py)
        first_x == FDiv(FNeg(first_y), tanf(angle))
        dy == IF up THEN Scale ELSE -Scale
        dx == FDiv(FNeg(dy), tanf(angle))
    IN  Returned(SweepLoop(0, first_x, first_y, px, py,
                           0, IF up THEN 0 ELSE -Scale, dx, dy))

vertical_intersection(px, py, angle) ==
    LET right == (((angle - FRAC_PI_2) \div PI) % 2) # 0
        first_x == IF right THEN FSub(ceilf(px), px) ELSE FSub(floorf(px), px)
        first_y == FMul(FNeg(tanf(angle)), first_x)
        dx == IF right THEN Scale ELSE -Scale
        dy == FMul(dx, FNeg(tanf(angle)))
    IN  Returned(SweepLoop(0, first_x, first_y, px, py,
                           IF right THEN 0 ELSE -Scale, 0, dx, dy))

---------------------------------------------------------------------------
(* get_view, one iteration of its loop *)

\* the angle of column i
RayAngle(pa, i) == (pa + HALF_FOV) - i * ANGLE_STEP

\* Nearest with the comparison the other way round: v < h picks the
\* vertical sweep, a tie the horizontal one
NearestTieHorizontal(h, v) == IF FLt(v, h) THEN << v, TRUE >> ELSE << h, FALSE >>

\* (min_dist, shadow) of the two distances
Nearest(h, v) == IF FLt(h, v) THEN << h, FALSE >> ELSE << v, TRUE >>

\* the array entry (height, shadow) of column i
Wall(pa, i, h, v) ==
    LET angle == RayAngle(pa, i)
        min_dist == Nearest(h, v)[1]
        shadow == Nearest(h, v)[2]
    IN  << AsI32(FDiv(WALL_HEIGHT, FMul(min_dist, cosf(angle - pa)))), shadow >>

---------------------------------------------------------------------------
(* bounds *)

MaxFrames == 3
MaxTurn == 1
MaxDrift == 6

\* every combination of the four direction bits of the byte at GAMEPAD1
\* (the low four bits, the buttons, are never read)
GamepadBytes == { b * 16 : b \in 0..15 }

\* the bytes the host writes in the frames that are drawn: nothing,
\* up + left, down + right
FrameBytes == { 0, BUTTON_UP + BUTTON_LEFT, BUTTON_DOWN + BUTTON_RIGHT }

---------------------------------------------------------------------------
(* the state machine *)

Pose == << player_x, player_y, player_angle >>

NoRay ==
    [dist |-> 0, next_x |-> 0, next_y |-> 0, calls |-> 0,
     shift |-> FALSE, panic |-> FALSE, hit |-> FALSE]

\* static mut STATE, and the host's memory before the first frame
Init ==
    /\ player_x = (3 * Scale) \div 2
    /\ player_y = (3 * Scale) \div 2
    /\ player_angle = 0
    /\ overflow_checks \in BOOLEAN
    /\ gamepad = 0
    /\ pc = "idle"
    /\ frames = 0
    /\ idx = 0
    /\ before = << (3 * Scale) \div 2, (3 * Scale) \div 2, 0 >>
    /\ origin = << >>
    /\ h_ray = NoRay
    /\ v_ray = NoRay
    /\ walls = << >>
    /\ draw_colors = 0
    /\ vline_call = << >>
    /\ shifted = FALSE
    /\ arg_x = 0
    /\ arg_y = 0
    /\ result = "none"

\* update() reads the byte at GAMEPAD1 and calls STATE.update on its four
\* direction bits; to is the pc after the call.  origin remembers where the
\* call before this one started when that call was an up-only one whose
\* step was not into a wall
CallStateUpdate(byte, to) ==
    \E moved \in { Moved(Pose, Pressed(byte, BUTTON_UP), Pressed(byte, BUTTON_DOWN)) } :
    \E new \in { StateUpdate(Pose, Pressed(byte, BUTTON_UP), Pressed(byte, BUTTON_DOWN),
                             Pressed(byte, BUTTON_LEFT), Pressed(byte, BUTTON_RIGHT)) } :
        /\ gamepad' = byte
        /\ before' = Pose
        /\ origin' = IF /\ gamepad = BUTTON_UP
                        /\ ~point_in_wall(Moved(before, TRUE, FALSE)[1],
                                          Moved(before, TRUE, FALSE)[2])
                     THEN before
                     ELSE << >>
        /\ shifted' = (shifted \/ ShiftOverflow(moved[1], moved[2]))
        /\ IF Panics(moved[1], moved[2])
           THEN /\ player_x' = moved[1]
                /\ player_y' = moved[2]
                /\ player_angle' = new[3]
                /\ pc' = "trap"
           ELSE /\ player_x' = new[1]
                /\ player_y' = new[2]
                /\ player_angle' = new[3]
                /\ pc' = to

\* the host calls update(): the input is read and STATE.update runs
Entry ==
    /\ pc = "idle"
    /\ frames < MaxFrames
    /\ \E byte \in FrameBytes : CallStateUpdate(byte, "view")
    /\ frames' = frames + 1
    /\ idx' = 0
    /\ walls' = << >>
    /\ UNCHANGED << overflow_checks, h_ray, v_ray, draw_colors, vline_call,
                    arg_x, arg_y, result >>

\* one iteration of get_view's loop; after the last one get_view returns
\* and the draw loop starts
CastColumn ==
    /\ pc = "view"
    /\ \E h \in { horizontal_intersection(player_x, player_y,
                                           RayAngle(player_angle, idx)) } :
       \E v \in { vertical_intersection(player_x, player_y,
                                         RayAngle(player_angle, idx)) } :
           IF h.panic
           THEN /\ h_ray' = h
                /\ shifted' = TRUE
                /\ pc' = "trap"
                /\ UNCHANGED << v_ray, walls, idx >>
           ELSE IF v.panic
           THEN /\ h_ray' = h
                /\ v_ray' = v
                /\ shifted' = TRUE
                /\ pc' = "trap"
                /\ UNCHANGED << walls, idx >>
           ELSE /\ h_ray' = h
                /\ v_ray' = v
                /\ shifted' = (shifted \/ h.shift \/ v.shift)
                /\ walls' = Append(walls, Wall(player_angle, idx, h.dist, v.dist))
                /\ idx' = IF idx + 1 = Columns THEN 0 ELSE idx + 1
                /\ pc' = IF idx + 1 = Columns THEN "color" ELSE "view"
    /\ UNCHANGED << player_x, player_y, player_angle, overflow_checks, gamepad,
                    frames, before, origin, draw_colors, vline_call, arg_x, arg_y,
                    result >>

\* *DRAW_COLORS = 0x2 or 0x3
SelectColor ==
    /\ pc = "color"
    /\ draw_colors' = IF walls[idx + 1][2] THEN 2 ELSE 3
    /\ pc' = "vline"
    /\ UNCHANGED << player_x, player_y, player_angle, overflow_checks, gamepad,
                    frames, idx, before, origin, h_ray, v_ray, walls, vline_call,
                    shifted, arg_x, arg_y, result >>

\* vline(x as i32, 80 - (height / 2), *height as u32); heights are never
\* negative, so `as u32` keeps them
DrawLine ==
    /\ pc = "vline"
    /\ vline_call' = << idx, 80 - (walls[idx + 1][1] \div 2), walls[idx + 1][1] >>
    /\ idx' = IF idx + 1 = Columns THEN 0 ELSE idx + 1
    /\ pc' = IF idx + 1 = Columns THEN "idle" ELSE "color"
    /\ UNCHANGED << player_x, player_y, player_angle, overflow_checks, gamepad,
                    frames, before, origin, h_ray, v_ray, walls, draw_colors,
                    shifted, arg_x, arg_y, result >>

Next == Entry \/ CastColumn \/ SelectColor \/ DrawLine

Spec == Init /\ [][Next]_vars

---------------------------------------------------------------------------
(* the movement half alone: update() without get_view and the draw loop,   *)
(* called any number of times with any direction bits                      *)

\* one call, while the heading stays within MaxTurn steps of the initial
\* one and the player within MaxDrift of the initial row
Move ==
    /\ pc = "idle"
    /\ \E byte \in GamepadBytes :
          /\ CallStateUpdate(byte, "idle")
          /\ Abs(player_angle') <= MaxTurn * STEP_SIZE * AngUnit
          /\ Abs(player_y' - (3 * Scale) \div 2) <= MaxDrift
    /\ UNCHANGED << overflow_checks, frames, idx, h_ray, v_ray, walls,
                    draw_colors, vline_call, arg_x, arg_y, result >>

SpecMove == Init /\ [][Move]_vars

---------------------------------------------------------------------------
(* point_in_wall alone, called on any point *)

\* the coordinates tried: below, inside and beyond the map, the
\* infinities and NaN
ArgXs == { NInf, -2 * Scale, -1, 0, (3 * Scale) \div 2, 2 * Scale,
           16 * Scale - 1, 16 * Scale, 17 * Scale + 1, 40 * Scale, PInf, NaN }
ArgYs == { NInf, -2 * Scale, -1, 0, (3 * Scale) \div 2, 8 * Scale - 1,
           8 * Scale, 9 * Scale + 1, 40 * Scale, PInf, NaN }

InitWall ==
    /\ player_x = (3 * Scale) \div 2
    /\ player_y = (3 * Scale) \div 2
    /\ player_angle = 0
    /\ overflow_checks \in BOOLEAN
    /\ gamepad = 0
    /\ pc = "idle"
    /\ frames = 0
    /\ idx = 0
    /\ before = << (3 * Scale) \div 2, (3 * Scale) \div 2, 0 >>
    /\ origin = << >>
    /\ h_ray = NoRay
    /\ v_ray = NoRay
    /\ walls = << >>
    /\ draw_colors = 0
    /\ vline_call = << >>
    /\ shifted = FALSE
    /\ arg_x \in ArgXs
    /\ arg_y \in ArgYs
    /\ result = "none"

\* point_in_wall(arg_x, arg_y): the value returned, or the panic
Query ==
    /\ result = "none"
    /\ result' = IF Panics(arg_x, arg_y) THEN "panic"
                 ELSE IF point_in_wall(arg_x, arg_y) THEN "true" ELSE "false"
    /\ shifted' = ShiftOverflow(arg_x, arg_y)
    /\ UNCHANGED << player_x, player_y, player_angle, overflow_checks, gamepad,
                    pc, frames, idx, before, origin, h_ray, v_ray, walls,
                    draw_colors, vline_call, arg_x, arg_y >>

SpecWall == InitWall /\ [][Query]_vars

---------------------------------------------------------------------------
(* the claims on State::update, under SpecMove *)

\* the flags of the last call of STATE.update
LastUp == Pressed(gamepad, BUTTON_UP)
LastDown == Pressed(gamepad, BUTTON_DOWN)
LastLeft == Pressed(gamepad, BUTTON_LEFT)
LastRight == Pressed(gamepad, BUTTON_RIGHT)

\* the last call's translated position was in a wall
LastBlocked ==
    point_in_wall(Moved(before, LastUp, LastDown)[1], Moved(before, LastUp, LastDown)[2])

\* C1: after any sequence of State::update calls from the initial pose the
\* player position is not inside a wall cell of MAP
C1_NeverInWall == ~point_in_wall(player_x, player_y)

\* a call was rolled back, and the player is where it was
C1_Witness == LastBlocked /\ player_x = before[1] /\ player_y = before[2]

\* C2: when the translated position lies in a wall, the position after the
\* call is the position before it, and the angle has still changed by
\* +STEP_SIZE for left and -STEP_SIZE for right
C2_CollisionRollback ==
    LastBlocked =>
        /\ player_x = before[1]
        /\ player_y = before[2]
        /\ player_angle = before[3]
                          + (IF LastLeft THEN STEP_SIZE * AngUnit ELSE 0)
                          - (IF LastRight THEN STEP_SIZE * AngUnit ELSE 0)

\* a blocked call that also turned
C2_Witness ==
    /\ LastBlocked
    /\ LastUp
    /\ LastLeft
    /\ ~LastRight
    /\ player_angle = before[3] + STEP_SIZE * AngUnit
    /\ player_x = before[1]

\* C5: update(up only) whose step is not into a wall, followed at once by
\* update(down only), returns the position to where it was and leaves the
\* angle unchanged
C5_SymmetricTranslation ==
    (gamepad = BUTTON_DOWN /\ origin # << >>) => Pose = origin

\* an up-only call moved the player along a turned heading, away from a
\* wall cell right behind it, and the down-only call after it has moved the
\* player again
C5_Witness ==
    /\ gamepad = BUTTON_DOWN
    /\ origin # << >>
    /\ Pose # before
    /\ before[2] # origin[2]
    /\ point_in_wall(Moved(origin, FALSE, TRUE)[1], Moved(origin, FALSE, TRUE)[2])

\* C9: a call changes the position only if up or down is set and the angle
\* only if left or right is set; update(false, false, false, false) changes
\* nothing
C9_Frame ==
    /\ (~LastUp /\ ~LastDown) => (player_x = before[1] /\ player_y = before[2])
    /\ (~LastLeft /\ ~LastRight) => player_angle = before[3]
    /\ gamepad = 0 => Pose = before

\* a call that only turned, and one that only moved
C9_Witness ==
    \/ (gamepad = BUTTON_LEFT /\ player_angle # before[3] /\ player_x = before[1])
    \/ (gamepad = BUTTON_UP /\ player_x # before[1] /\ player_angle = before[3])

---------------------------------------------------------------------------
(* the claims on get_view and the frame, under Spec *)

Start == << (3 * Scale) \div 2, (3 * Scale) \div 2, 0 >>

\* h_ray, v_ray and the last entry of walls are those of one iteration of
\* get_view's loop
ColumnCast == pc # "trap" /\ Len(walls) > 0

C6_SweepsReturn ==
    /\ ~h_ray.panic
    /\ ~v_ray.panic
    /\ h_ray.calls <= SweepSteps
    /\ v_ray.calls <= SweepSteps
    /\ (h_ray.calls > 0 /\ h_ray.calls < SweepSteps) => h_ray.hit
    /\ (v_ray.calls > 0 /\ v_ray.calls < SweepSteps) => v_ray.hit

\* C7 as claimed: every call of update() runs get_view to its 160 entries
\* and then draws the columns 0, 1, .., 159 in this order, each vline
\* preceded by the write of its colour, 0x2 for a shadowed column and 0x3
\* otherwise, and drawn from 80 - height / 2 with length height
C7_FrameOrder ==
    /\ pc # "trap"
    /\ pc \in { "color", "vline" } => Len(walls) = Columns
    /\ pc = "vline" => draw_colors = (IF walls[idx + 1][2] THEN 2 ELSE 3)
    /\ (pc \in { "color", "vline" } /\ idx > 0) =>
           vline_call = << idx - 1, 80 - (walls[idx][1] \div 2), walls[idx][1] >>
    /\ (pc = "idle" /\ frames > 0) =>
           vline_call = << Columns - 1, 80 - (walls[Columns][1] \div 2),
                           walls[Columns][1] >>

\* the column of the heading
HeadingColumn == Columns \div 2

\* what get_view computes for the heading column at the initial pose, in a
\* run that gets to cast it: the vertical sweep stops at its first call, on
\* the wall cell at column 2 of row 1, at distance 0.5; the horizontal
\* sweep is farther; the entry is (WALL_HEIGHT / 0.5, true)
HeadingColumnWhenCast ==
    /\ (Pose = Start /\ pc = "view" /\ idx = HeadingColumn + 1) =>
           /\ RayAngle(player_angle, HeadingColumn) = player_angle
           /\ v_ray.hit
           /\ v_ray.calls = 1
           /\ AsUsize(player_x + v_ray.next_x) = 2
           /\ AsUsize(player_y + v_ray.next_y) = 1
           /\ Bit(MAP[2], 2)
           /\ v_ray.dist = Scale \div 2
           /\ FLt(v_ray.dist, h_ray.dist)
    /\ (Pose = Start /\ pc # "trap" /\ Len(walls) > HeadingColumn) =>
           walls[HeadingColumn + 1] = << WALL_HEIGHT \div (Scale \div 2), TRUE >>

\* C8 as claimed: at the initial pose get_view gives the heading column the
\* wall cell at column 2 of row 1, at distance 0.5: once get_view has run
\* there, the column's entry is (WALL_HEIGHT / 0.5 truncated, shadow of the
\* sweep that gave the minimum, the vertical one)
C8_HeadingColumnSeen ==
    (Pose = Start /\ frames > 0 /\ pc # "view") =>
        /\ Len(walls) > HeadingColumn
        /\ walls[HeadingColumn + 1] = << WALL_HEIGHT \div (Scale \div 2), TRUE >>

\* C10 as claimed: no point_in_wall call on a row of the map has a column
\* index of 16 or more, so no shift overflows and the program never traps
C10_NoWideQuery == ~shifted /\ pc # "trap"

---------------------------------------------------------------------------
(* the claim on point_in_wall, under SpecWall *)

\* y is a number outside [0, 8)
OutsideRows(y) == y # NaN /\ (y < 0 \/ y >= Len(MAP) * Scale)

\* C4 as claimed: for every y outside [0, 8) and every x the call returns
\* true, without failing
C4_BoundaryEnclosure ==
    (result # "none" /\ OutsideRows(arg_y)) => result = "true"

---------------------------------------------------------------------------
(* the same statements in a build that wraps the shift instead of panicking *)

SweepsReturnWhenWrapping == overflow_checks \/ C6_SweepsReturn
FrameOrderWhenWrapping == overflow_checks \/ C7_FrameOrder
HeadingColumnSeenWhenWrapping == overflow_checks \/ C8_HeadingColumnSeen
BoundaryEnclosureWhenWrapping == overflow_checks \/ C4_BoundaryEnclosure

====
